---------------------------- MODULE Spec2Model ----------------------------
(***************************************************************************)
(* Videomass: the concat demuxer panel (videomass/vdms_panels/             *)
(* concatenate.py).  compare_media_param is modelled as an operator over   *)
(* FFprobe records, Conc_Demuxer.on_start as one action over the panel's   *)
(* fields and the calls it makes (the list file, check_files, the message  *)
(* box, switch_to_processing).                                             *)
(*                                                                         *)
(* Python strings that the code only passes around are TLA+ strings;       *)
(* strings the code takes apart or builds character by character (file     *)
(* names, the lines of the list file) are sequences of one-character       *)
(* strings.                                                                *)
(***************************************************************************)
EXTENDS Integers, Sequences, FiniteSets, TLC

VARIABLES
    data_files,     \* parent.data_files: the FFprobe record of each imported file
    args,           \* Conc_Demuxer.args
    self_duration,  \* Conc_Demuxer.duration
    flist,          \* content of <cachedir>/tmp/flist.txt
    msgbox,         \* text of the last wx.MessageBox shown by on_start
    checked,        \* the last check_files call: <<>> or <<its arguments>>
    proc,           \* the last parent.switch_to_processing call, likewise
    time_seq,       \* parent.time_seq: the words of the '-ss .. -t ..' string
    time_read,      \* MainFrame.time_read
    frame,          \* MainFrame: topicname, file_src, duration, what is shown
    dropped,        \* the FFprobe records of the files dropped on fileDnDTarget
    topic,          \* the last ProcessPanel.topic_thread call, likewise
    opt,            \* SequenceToVideo.opt
    ckbx_audio,     \* 'Include audio file' is checked
    ckbx_shortest,  \* 'Play the video until audio file ends': checked, enabled
    ckbx_static_img,\* 'Enable a single still image' is checked
    btn_openaudio,  \* the 'Open audio file' button is enabled
    txt_addparams,  \* the additional parameters field is enabled
    returned,       \* the last return of get_args_line: <<>> or <<(cmd, duration)>>
    filedropselected, \* parent.filedropselected: the file selected in the queue
    flCtrl,         \* parent.fileDnDTarget.flCtrl: column 3 of each row, the media type
    isfile          \* the files of parent.file_src that exist on disk

\* the fields of the concat demuxer panel
concat_vars == <<args, self_duration, flist, msgbox, checked, proc>>

\* the fields of the videomass3 main frame
frame_vars == <<time_read, frame, dropped, topic>>

\* the fields of the still image maker panel
slide_vars == <<opt, ckbx_audio, ckbx_shortest, ckbx_static_img,
                btn_openaudio, txt_addparams, returned>>

\* what the still image maker panel reads of its parent and of the disk
parent_vars == <<filedropselected, flCtrl, isfile>>

\* what the concat demuxer panel never touches
other_panels == <<time_seq, frame_vars, slide_vars, parent_vars>>

vars == <<data_files, time_seq, concat_vars, frame_vars, slide_vars, parent_vars>>

----------------------------------------------------------------------------
(* Bounds of the model *)

\* the most files imported in the main frame
MaxFiles == 3

----------------------------------------------------------------------------
(* Values *)

\* Python's None
None == "None"

\* self.duration = None (line 106): a number that is no sum of durations
NoDuration == -1

\* the content of the list file before it was ever written: no text
NotWritten == <<"NotWritten">>

\* no call made yet
NoCall == <<>>

\* opt["Interval"] = "" (sequence_to_video.py line 102): a number that is no
\* count of seconds
NoInterval == -1

\* the '' of time_read before a range is set (main_frame.py line 112): a
\* text that is no clock, and a number that is no count of seconds
NoText == <<>>

MSG_AT_LEAST_TWO == "At least two files are required to perform concatenation."

MSG_INVALID == "Invalid data found"

MSG_INCOMPATIBLE == "The files do not have the same \"codec_types\", same \"sample_rate\" or same \"width\" or \"height\". Unable to proceed."

\* self.args as on_start sets it (ftext is the fixed path of the list file)
CONCAT_ARGS == "\"flist.txt\" -map 0:v? -map_chapters 0 -map 0:s? -map 0:a? -map_metadata 0 -c copy"

----------------------------------------------------------------------------
(* Helpers over sequences *)

Max(S) == CHOOSE m \in S : \A n \in S : n <= m

\* str.rfind for one character: the last position of c in s, 0 when absent
LastIndexOf(s, c) ==
    LET I == {i \in 1..Len(s) : s[i] = c}
    IN  IF I = {} THEN 0 ELSE Max(I)

RECURSIVE SumSeq(_)
\* sum() of a list of numbers
SumSeq(s) == IF s = <<>> THEN 0 ELSE Head(s) + SumSeq(Tail(s))

Digits == <<"0", "1", "2", "3", "4", "5", "6", "7", "8", "9">>

RECURSIVE IntToStr(_)
\* how an f-string formats a non-negative int
IntToStr(n) ==
    IF n < 10 THEN Digits[n + 1]
    ELSE IntToStr(n \div 10) \o Digits[(n % 10) + 1]

----------------------------------------------------------------------------
(* compare_media_param: concatenate.py lines 35-68 *)

\* the size of a video stream with its height left out
video_size_width_only(items) == IntToStr(items.width)

\* size = f"{items.get('width')}x{items.get('height')}"
video_size(items) == IntToStr(items.width) \o "x" \o IntToStr(items.height)

\* the entry of a video stream: [codec_name, size]
video_entry(items) == <<items.codec_name, video_size(items)>>

\* the entry of an audio stream with its sample rate left out
audio_entry_codec_only(items) == <<items.codec_name>>

\* the entry of an audio stream: [codec_name, sample_rate]
audio_entry(items) == <<items.codec_name, items.sample_rate>>

\* dict assignment d[k] = v
DictPut(d, k, v) == (k :> v) @@ d

\* the two ifs with every stream that is not a video stream taken as audio
stream_signature_else_audio(sig, items) ==
    IF items.codec_type = "video"
    THEN DictPut(sig, items.index, video_entry(items))
    ELSE DictPut(sig, items.index, <<items.codec_name>>)

\* the body of the loop over a file's streams (lines 52-58): com[name] after
\* one more stream
stream_signature(sig, items) ==
    LET afterVideo == IF items.codec_type = "video"
                      THEN DictPut(sig, items.index, video_entry(items))
                      ELSE sig
    IN  IF items.codec_type = "audio"
        THEN DictPut(afterVideo, items.index, audio_entry(items))
        ELSE afterVideo

RECURSIVE signature_from(_, _)
\* the loop of line 51 run over `streams`, starting from `sig`
signature_from(sig, streams) ==
    IF streams = <<>> THEN sig
    ELSE signature_from(stream_signature(sig, Head(streams)), Tail(streams))

\* com[name] as lines 50-58 leave it for one file: stream index -> entry
file_signature(streams) == signature_from(<<>>, streams)

\* com is a dict that keeps the order in which its keys were first inserted:
\* a sequence of [name, sig], no name twice
ComKeys(com) == {com[i].name : i \in 1..Len(com)}

\* com[name] = sig
ComPut(com, name, sig) ==
    IF name \in ComKeys(com)
    THEN [i \in 1..Len(com) |->
            IF com[i].name = name THEN [name |-> name, sig |-> sig] ELSE com[i]]
    ELSE Append(com, [name |-> name, sig |-> sig])

\* one file of the loop of line 48, with com[name] created only when the file
\* has a video or an audio stream
com_add_file_lazy(com, streams) ==
    LET sig == file_signature(streams.streams)
    IN  IF sig = <<>> THEN com
        ELSE ComPut(com, streams.format.filename, sig)

\* one file of the loop of line 48 (lines 49-58)
com_add_file(com, streams) ==
    ComPut(com, streams.format.filename, file_signature(streams.streams))

RECURSIVE com_from(_, _)
\* the loop of line 48 run over `data`, starting from `com`
com_from(com, data) ==
    IF data = <<>> THEN com
    ELSE com_from(com_add_file(com, Head(data)), Tail(data))

\* com as line 60 finds it
build_com(data) == com_from(<<>>, data)

\* `not com` taken as "no file has a stream to compare"
com_is_empty_no_streams(com) == \A i \in 1..Len(com) : com[i].sig = <<>>

\* `not com` (line 60)
com_is_empty(com) == com = <<>>

\* lines 46-68: what compare_media_param does after the length check
compare_signatures(data) ==
    LET com == build_com(data)
    IN  IF com_is_empty(com) THEN MSG_INVALID
        ELSE LET totest == com[1].sig
             IN  IF \A i \in 1..Len(com) : com[i].sig = totest
                 THEN None
                 ELSE MSG_INCOMPATIBLE

\* compare_media_param without the check of line 44
compare_media_param_no_length_check(data) == compare_signatures(data)

\* compare_media_param(data): an error message, or None
compare_media_param(data) ==
    IF Len(data) = 1 THEN MSG_AT_LEAST_TWO
    ELSE compare_signatures(data)

----------------------------------------------------------------------------
(* The files a user can import: FFprobe records *)

NameA == <<"a", ".", "m", "p", "4">>

NameB == <<"b", "'", ".", "m", "k", "v">>

\* a media file whose name has no extension
NameC == <<"c">>

Names == {NameA, NameB, NameC}

\* format.format_name of the file of that name
FormatNameOf(name) ==
    IF name = NameA THEN "mov,mp4,m4a,3gp,3g2,mj2"
    ELSE IF name = NameB THEN "matroska,webm"
    ELSE "mpegts"

\* the duration of the file of that name, in milliseconds
DurationOf(name) ==
    IF name = NameA THEN 1000
    ELSE IF name = NameB THEN 2500
    ELSE 400

VideoStream(i, c, w, h) ==
    [index |-> i, codec_type |-> "video", codec_name |-> c,
     width |-> w, height |-> h]

AudioStream(i, c, r) ==
    [index |-> i, codec_type |-> "audio", codec_name |-> c, sample_rate |-> r]

SubtitleStream(i) ==
    [index |-> i, codec_type |-> "subtitle", codec_name |-> "subrip"]

\* one FFprobe record: format and streams (stream indexes are those FFprobe
\* gives: one per stream, no index twice in a file)
ProbedFile(name, streams) ==
    [format |-> [filename |-> name, format_name |-> FormatNameOf(name),
                 duration |-> DurationOf(name)],
     streams |-> streams]

\* what stream 0 of an imported file can be: none, or a video stream
DropStream0 == {<<>>, <<VideoStream(0, "h264", 1, 11)>>}

\* what stream 1 of an imported file can be: a subtitle or an audio stream
DropStream1 == {<<SubtitleStream(1)>>, <<AudioStream(1, "aac", "44100")>>}

\* the files the user imports in the main frame
DropFiles ==
    {ProbedFile(n, s0 \o s1) : n \in Names, s0 \in DropStream0, s1 \in DropStream1}

Sizes == {1, 11}

\* every stream the comparison is tried on, at index i
StreamsAt(i) ==
    {VideoStream(i, "h264", w, h) : w \in Sizes, h \in Sizes}
    \cup {AudioStream(i, c, r) : c \in {"aac", "mp3"}, r \in {"44100", "48000"}}
    \cup {SubtitleStream(i)}

StreamChoice(i) == {<<>>} \cup {<<s>> : s \in StreamsAt(i)}

\* the files the comparison is tried on, two at a time
PairFiles ==
    {ProbedFile(n, s0 \o s1) :
        n \in Names, s0 \in StreamChoice(0), s1 \in StreamChoice(1)}

----------------------------------------------------------------------------
(* The main frame's lists, derived from data_files *)

\* parent.file_src
file_src == [i \in 1..Len(data_files) |-> data_files[i].format.filename]

\* parent.duration
duration == [i \in 1..Len(data_files) |-> data_files[i].format.duration]

----------------------------------------------------------------------------
(* Conc_Demuxer.on_start: concatenate.py lines 186-247 *)

\* os.path.splitext(p)[1]: from the last dot of the last path component, when
\* a character other than a dot precedes it there; else empty
splitext_ext(p) ==
    LET sep == LastIndexOf(p, "/")
        dot == LastIndexOf(p, ".")
    IN  IF dot > sep /\ \E i \in (sep + 1)..(dot - 1) : p[i] # "."
        THEN SubSeq(p, dot, Len(p))
        ELSE <<>>

\* whether splitext(p)[1].split('.')[1] exists (else line 200 raises IndexError)
HasExt(p) == splitext_ext(p) # <<>>

\* ext of line 200: splitext(p)[1] holds one dot, its first character
ExtOf(p) == Tail(splitext_ext(p))

RECURSIVE escape_quotes(_)
\* f.replace("'", "'\''") (line 203)
escape_quotes(f) ==
    IF f = <<>> THEN <<>>
    ELSE (IF Head(f) = "'" THEN <<"'", "\\", "'", "'">> ELSE <<Head(f)>>)
         \o escape_quotes(Tail(f))

\* f"file '{escaped}'" (line 204)
list_entry(f) == <<"f", "i", "l", "e", " ", "'">> \o escape_quotes(f) \o <<"'">>

RECURSIVE JoinLines(_)
\* '\n'.join(textstr)
JoinLines(lines) ==
    IF lines = <<>> THEN <<>>
    ELSE IF Len(lines) = 1 THEN Head(lines)
    ELSE Head(lines) \o <<"\n">> \o JoinLines(Tail(lines))

\* textstr with the files taken last to first
textstr_reversed(fsrc) ==
    [i \in 1..Len(fsrc) |-> list_entry(fsrc[Len(fsrc) + 1 - i])]

\* textstr as the loop of lines 202-204 leaves it
textstr_of(fsrc) == [i \in 1..Len(fsrc) |-> list_entry(fsrc[i])]

\* the arguments on_start gives check_files: the first source file and ext
check_files_args == [file |-> file_src[1], ext |-> ExtOf(file_src[1])]

\* what on_start sets before it calls check_files (lines 199-209)
on_start_build ==
    /\ self_duration' = SumSeq(duration)
    /\ args' = CONCAT_ARGS
    /\ flist' = JoinLines(textstr_of(file_src))

\* concat_demuxer (lines 225-247) with the epilogue dialog confirmed
switch_to_processing ==
    proc' = <<[mode |-> "concat_demuxer", filesrc |-> file_src,
               newfile |-> check_files_args, args |-> args',
               duration |-> self_duration', count |-> 1]>>

\* on_start with the list file, self.args and self.duration set before the
\* files are compared
on_start_build_first ==
    LET diff == compare_media_param(data_files)
    IN  \/ /\ diff # None
           /\ msgbox' = diff
           /\ on_start_build
           /\ UNCHANGED <<data_files, checked, proc, other_panels>>
        \/ /\ diff = None
           /\ HasExt(file_src[1])
           /\ on_start_build
           /\ checked' = <<check_files_args>>
           /\ switch_to_processing
           /\ UNCHANGED <<data_files, msgbox, other_panels>>

\* Conc_Demuxer.on_start, the whole handler.  check_files asks the user
\* before it overwrites and the epilogue dialog can be cancelled: both are
\* inputs of the handler.
on_start ==
    LET diff == compare_media_param(data_files)
    IN  \/ /\ diff # None                        \* lines 195-197
           /\ msgbox' = diff
           /\ UNCHANGED <<data_files, args, self_duration, flist, checked, proc,
                         other_panels>>
        \/ /\ diff = None                        \* line 200 raises IndexError
           /\ ~HasExt(file_src[1])
           /\ UNCHANGED vars
        \/ /\ diff = None
           /\ HasExt(file_src[1])
           /\ on_start_build
           /\ checked' = <<check_files_args>>
           /\ UNCHANGED <<data_files, msgbox, other_panels>>
           /\ \E checking \in {None, "files"}, ending \in {"ID_OK", "ID_CANCEL"} :
                IF checking # None /\ ending = "ID_OK"
                THEN switch_to_processing
                ELSE proc' = proc               \* line 219, or the dialog cancelled

\* the user imports one more file (its FFprobe record joins parent.data_files)
AddFile ==
    /\ Len(data_files) < MaxFiles
    /\ \E f \in DropFiles : data_files' = Append(data_files, f)
    /\ UNCHANGED <<concat_vars, other_panels>>

\* MainFrame.__init__ (main_frame.py lines 106-319), nothing processed yet
FrameInit ==
    /\ time_read = [start_seek |-> <<NoText, NoText>>, time |-> <<NoText, NoText>>]
    /\ frame = [topicname |-> None, file_src |-> <<>>, duration |-> <<>>,
                data_url |-> <<>>, shown |-> {"ChooseTopic"}, toolbar |-> FALSE,
                btnpanel |-> FALSE, menus |-> TRUE, items |-> {},
                title |-> "Videomass"]
    /\ dropped = <<>>
    /\ topic = NoCall

\* self.opt as SequenceToVideo.__init__ builds it (lines 99-104)
opt_init ==
    [Scale |-> NoText, Setdar |-> NoText, Setsar |-> NoText, RESIZE |-> NoText,
     ADuration |-> 0, AudioMerging |-> "", Map |-> "-map 0:v?",
     Shortest |-> <<"", "Disabled">>, Interval |-> NoInterval,
     Clock |-> <<"0", "0", ":", "0", "0", ":", "0", "0", ":", "0", "0", "0">>,
     Preinput |-> <<"1", "/", "0">>, Fps |-> <<"fps=10,", "10">>]

\* SequenceToVideo.__init__ (lines 89-238), get_args_line not called yet
SlideInit ==
    /\ opt = opt_init
    /\ ckbx_audio = FALSE
    /\ ckbx_shortest = [checked |-> FALSE, enabled |-> FALSE]
    /\ ckbx_static_img = FALSE
    /\ btn_openaudio = FALSE
    /\ txt_addparams = FALSE
    /\ returned = NoCall
    /\ filedropselected = NoText
    /\ flCtrl = <<>>
    /\ isfile = {}

\* Conc_Demuxer.__init__ (lines 105-106), nothing imported, nothing called yet
PanelInit ==
    /\ args = ""
    /\ self_duration = NoDuration
    /\ flist = NotWritten
    /\ msgbox = None
    /\ checked = NoCall
    /\ proc = NoCall

Init ==
    /\ data_files = <<>>
    /\ time_seq = <<>>
    /\ PanelInit
    /\ FrameInit
    /\ SlideInit

Next == AddFile \/ on_start

\* the panel in use: files are imported and Start is pressed, in any order
Spec == Init /\ [][Next]_vars

\* compare_media_param and on_start tried on every pair of files
InitPairs ==
    /\ data_files \in {<<f, g>> : f \in PairFiles, g \in PairFiles}
    /\ time_seq = <<>>
    /\ PanelInit
    /\ FrameInit
    /\ SlideInit

NextPairs == on_start

SpecPairs == InitPairs /\ [][NextPairs]_vars

----------------------------------------------------------------------------
(* videomass.vdms_utils.utils: get_milliseconds, get_seconds,              *)
(* milliseconds2clock, and Python's round                                   *)

Min(S) == CHOOSE m \in S : \A n \in S : m <= n

RECURSIVE SplitOn(_, _)
\* str.split(c) for one character c
SplitOn(s, c) ==
    LET I == {i \in 1..Len(s) : s[i] = c}
    IN  IF I = {} THEN <<s>>
        ELSE <<SubSeq(s, 1, Min(I) - 1)>>
                 \o SplitOn(SubSeq(s, Min(I) + 1, Len(s)), c)

\* the value of a digit character
DigitOf(ch) == CHOOSE d \in 0..9 : Digits[d + 1] = ch

RECURSIVE StrToNat(_)
\* int() of a text of digits
StrToNat(s) ==
    IF s = <<>> THEN 0
    ELSE StrToNat(SubSeq(s, 1, Len(s) - 1)) * 10 + DigitOf(s[Len(s)])

\* int() of a text of digits with an optional sign
StrToInt(s) == IF Head(s) = "-" THEN 0 - StrToNat(Tail(s)) ELSE StrToNat(s)

RECURSIVE IntToChars(_)
\* str() of a non-negative int, character by character
IntToChars(n) ==
    IF n < 10 THEN <<Digits[n + 1]>>
    ELSE IntToChars(n \div 10) \o <<Digits[(n % 10) + 1]>>

RECURSIVE ZeroFill(_, _)
\* a text of digits filled with zeros on the left up to the width w
ZeroFill(s, w) == IF Len(s) >= w THEN s ELSE ZeroFill(<<"0">> \o s, w)

\* the format specification :0w of an int: the sign counts in the width
Padded(n, w) ==
    IF n < 0 THEN <<"-">> \o ZeroFill(IntToChars(0 - n), w - 1)
    ELSE ZeroFill(IntToChars(n), w)

\* get_milliseconds: the clock 'HH:MM:SS.mmm' in milliseconds
get_milliseconds(timeformat) ==
    LET hms == SplitOn(timeformat, ":")
        sm  == SplitOn(hms[3], ".")
    IN  StrToInt(hms[1]) * 3600000 + StrToInt(hms[2]) * 60000
            + StrToInt(sm[1]) * 1000 + StrToInt(sm[2])

RECURSIVE Power10(_)
Power10(k) == IF k = 0 THEN 1 ELSE 10 * Power10(k - 1)

\* k decimals of a float text as an integer: for k = 3, '5' is 500
decimals_scaled(decimals, k) ==
    StrToNat(decimals \o [i \in 1..(k - Len(decimals)) |-> "0"])

\* float() of a text 'SS' or 'SS.dddd' of at most k decimals, times 10^k
float_scaled(s, k) ==
    LET sm == SplitOn(s, ".")
    IN  IF Len(sm) = 1 THEN StrToInt(sm[1]) * Power10(k)
        ELSE IF Head(sm[1]) = "-"
        THEN StrToInt(sm[1]) * Power10(k) - decimals_scaled(sm[2], k)
        ELSE StrToInt(sm[1]) * Power10(k) + decimals_scaled(sm[2], k)

\* get_seconds: the clock in seconds, a float; here in thousandths of a second
get_seconds(timeformat) ==
    LET hms == SplitOn(timeformat, ":")
    IN  (StrToInt(hms[1]) * 3600 + StrToInt(hms[2]) * 60) * 1000
            + float_scaled(hms[3], 3)

\* milliseconds2clock: milliseconds as the clock 'HH:MM:SS.mmm'
milliseconds2clock(milliseconds) ==
    LET sec  == milliseconds \div 1000
        msec == milliseconds % 1000
        s    == sec % 60
        m    == (sec \div 60) % 60
        h    == (sec \div 60) \div 60
    IN  Padded(h, 2) \o <<":">> \o Padded(m, 2) \o <<":">> \o Padded(s, 2)
            \o <<".">> \o Padded(msec, 3)

\* n / d rounded to the nearest integer, a tie upwards
round_half_up(n, d) == (2 * n + d) \div (2 * d)

\* round(n / d) for d > 0 as Python rounds: to the nearest integer, a tie to
\* the even one
round(n, d) ==
    LET q == n \div d
        r == n % d
    IN  IF 2 * r < d THEN q
        ELSE IF 2 * r > d THEN q + 1
        ELSE IF q % 2 = 0 THEN q ELSE q + 1

----------------------------------------------------------------------------
(* SequenceToVideo: sequence_to_video.py *)

\* the default text of txt_addparams (lines 218-221)
ADDPARAMS == "-c:v libx264 -crf 23 -tune:v stillimage"

\* the clock get_args_line takes for an empty timeline (line 556)
ONE_SECOND == <<"0", "0", ":", "0", "0", ":", "0", "1", ".", "0", "0", "0">>

\* the clock of an empty timeline (line 555)
ZERO_CLOCK == <<"0", "0", ":", "0", "0", ":", "0", "0", ".", "0", "0", "0">>

\* the text '-loop 1 -t ' of lines 438 and 490
LOOP_T == <<"-", "l", "o", "o", "p", " ", "1", " ", "-", "t", " ">>

\* the text '-framerate 1/' of line 445
FRAMERATE_1 == <<"-", "f", "r", "a", "m", "e", "r", "a", "t", "e", " ", "1", "/">>

\* cmd_2 without the flag of the shortest option
cmd_2_no_shortest(o) ==
    LET addparam == IF txt_addparams THEN ADDPARAMS ELSE ""
    IN  <<o.AudioMerging, " ", addparam, " -vf \"", o.Fps[1],
          "format=yuv420p\" ", o.Map, " ", "">>

\* cmd_2 of lines 453-456 and 488-491: the pieces the f-string joins
cmd_2(o) ==
    LET addparam == IF txt_addparams THEN ADDPARAMS ELSE ""
    IN  <<o.AudioMerging, " ", addparam, " -vf \"", o.Fps[1],
          "format=yuv420p\" ", o.Map, " ", o.Shortest[1]>>

\* the builders never take the duration of the audio file
audio_rules_never(o) == FALSE

\* the builders take the duration of the audio file whenever the audio
\* checkbox is checked
audio_rules_always(o) == ckbx_audio

\* the builders take the duration of the audio file on their first call only
audio_rules_first_call(o) ==
    ckbx_audio /\ o.Shortest[1] = "" /\ o.Interval = NoInterval

\* the else branch of lines 428-438 and 467-475: the audio checkbox is
\* checked and opt["Shortest"][0] is empty
audio_rules(o) == ckbx_audio /\ o.Shortest[1] = ""

\* the total of a slideshow as the time of one image
slideshow_duration_one_image(timeline) == get_milliseconds(timeline)

\* duration of lines 431 and 440
slideshow_duration(timeline) == get_milliseconds(timeline) * Len(file_src)

\* the total of a still image as the time of one image for every file
loop_duration_all_files(timeline) == get_milliseconds(timeline) * Len(file_src)

\* duration of lines 469 and 477
loop_duration(timeline) == get_milliseconds(timeline)

\* framerate with the seconds as they are, zero too
framerate_of_seconds(sec) == FRAMERATE_1 \o Padded(sec, 1)

\* framerate of line 445
framerate_of(sec) ==
    IF sec = 0 THEN FRAMERATE_1 \o <<"1">> ELSE FRAMERATE_1 \o Padded(sec, 1)

\* build_command_slideshow (lines 423-458): the options it leaves, and the
\* command and the duration it returns
build_command_slideshow(o, timeline) ==
    LET total    == IF audio_rules(o) THEN o.ADuration
                    ELSE slideshow_duration(timeline)
        clock    == milliseconds2clock(total)
        sec      == round(get_seconds(timeline), 1000)
        loop     == IF audio_rules(o) THEN LOOP_T \o clock ELSE <<>>
        o2 == [o EXCEPT !.Clock = clock,
                        !.Preinput = loop \o <<" ">> \o framerate_of(sec),
                        !.Interval = sec]
    IN  [opt |-> o2, cmd |-> cmd_2(o2), duration |-> total]

\* build_command_loop_image (lines 461-493), likewise
build_command_loop_image(o, timeline) ==
    LET total    == IF audio_rules(o) THEN o.ADuration
                    ELSE loop_duration(timeline)
        clock    == IF audio_rules(o) THEN milliseconds2clock(o.ADuration)
                    ELSE timeline
        sec      == IF ckbx_audio /\ ~audio_rules(o)
                    THEN round(get_seconds(timeline), 1000)   \* line 471
                    ELSE round(total, 1000)                \* lines 475, 479
        o2 == [o EXCEPT !.Clock = clock,
                        !.Preinput = LOOP_T \o clock,
                        !.Interval = sec]
    IN  [opt |-> o2, cmd |-> cmd_2(o2), duration |-> total]

\* the audio files the user can open: the path and format.duration as
\* FFprobe gives it, seconds with six decimals
AudioFiles ==
    { [pathname |-> "/music/song.mp3",
       duration |-> <<"1", "2", ".", "3", "4", "5", "0", "0", "0">>],
      [pathname |-> "/music/tone.wav",
       duration |-> <<"2", ".", "5", "0", "0", "4", "0", "0">>] }

\* round(float(duration) * 1000) of lines 419-420
audio_milliseconds(text) == round(float_scaled(text, 6), 1000)

\* the i-th image the user imports
ImageFile(i) ==
    [format |-> [filename |-> <<"i", "m", "g">> \o IntToChars(i) \o <<".", "j", "p", "g">>,
                 format_name |-> "image2", duration |-> 40],
     streams |-> <<VideoStream(0, "mjpeg", 11, 11)>>]

\* the time of one image the user sets on the timeline, in milliseconds
TimelineMs == {0, 500, 1000, 2500, 3723004}

\* parent.time_seq for a duration of ms milliseconds from the start
time_seq_of(clock) == << <<"-", "s", "s">>, ZERO_CLOCK, <<"-", "t">>, clock >>

\* the user sets the duration on the timeline of the main frame
set_time_seq ==
    /\ \E ms \in TimelineMs : time_seq' = time_seq_of(milliseconds2clock(ms))
    /\ UNCHANGED <<data_files, concat_vars, frame_vars, slide_vars, parent_vars>>

\* on_enable_audio that keeps the audio file and the shortest checkbox when
\* the box is unchecked
on_enable_audio_keeps_track ==
    /\ ckbx_audio' = ~ckbx_audio
    /\ btn_openaudio' = ckbx_audio'
    /\ ckbx_shortest' = [ckbx_shortest EXCEPT !.enabled = ckbx_audio']
    /\ opt' = [opt EXCEPT !.Shortest = IF ckbx_audio'
                                       THEN <<"-shortest", "Enabled">>
                                       ELSE <<"", "Disabled">>]
    /\ UNCHANGED <<data_files, time_seq, concat_vars, frame_vars, parent_vars,
                   ckbx_static_img, txt_addparams, returned>>

\* on_enable_audio (lines 371-392), after the click on 'Include audio file'
on_enable_audio ==
    /\ ckbx_audio' = ~ckbx_audio
    /\ IF ckbx_audio'
       THEN /\ btn_openaudio' = TRUE
            /\ ckbx_shortest' = [ckbx_shortest EXCEPT !.enabled = TRUE]
            /\ opt' = [opt EXCEPT !.Shortest = <<"-shortest", "Enabled">>]
       ELSE /\ btn_openaudio' = FALSE
            /\ ckbx_shortest' = [checked |-> FALSE, enabled |-> FALSE]
            /\ opt' = [opt EXCEPT !.AudioMerging = "",
                                  !.Map = "-map 0:v?",
                                  !.ADuration = 0,
                                  !.Shortest = <<"", "Disabled">>]
    /\ UNCHANGED <<data_files, time_seq, concat_vars, frame_vars, parent_vars,
                   ckbx_static_img, txt_addparams, returned>>

\* on_shortest (lines 360-368), after the click on 'Play the video until
\* audio file ends'
on_shortest ==
    /\ ckbx_shortest.enabled
    /\ ckbx_shortest' = [ckbx_shortest EXCEPT !.checked = ~ckbx_shortest.checked]
    /\ opt' = [opt EXCEPT !.Shortest = IF ckbx_shortest'.checked
                                       THEN <<"", "Disabled">>
                                       ELSE <<"-shortest", "Enabled">>]
    /\ UNCHANGED <<data_files, time_seq, concat_vars, frame_vars, parent_vars, ckbx_audio,
                   ckbx_static_img, btn_openaudio, txt_addparams, returned>>

\* on_addaudio_track (lines 395-420): the file dialog is cancelled, or an
\* audio file is chosen and probed
on_addaudio_track ==
    /\ btn_openaudio
    /\ \/ UNCHANGED opt                                     \* line 407
       \/ \E f \in AudioFiles :
            /\ opt' = [opt EXCEPT
                         !.AudioMerging = "-i \"" \o f.pathname \o "\"",
                         !.Map = "-map 0:v:0 -map 1:a:0",
                         !.ADuration = audio_milliseconds(f.duration)]
    /\ UNCHANGED <<data_files, time_seq, concat_vars, frame_vars, parent_vars, ckbx_audio,
                   ckbx_shortest, ckbx_static_img, btn_openaudio,
                   txt_addparams, returned>>

\* on_addparams (lines 260-267), after the click on the edit checkbox
on_addparams ==
    /\ txt_addparams' = ~txt_addparams
    /\ UNCHANGED <<data_files, time_seq, concat_vars, frame_vars, parent_vars, opt,
                   ckbx_audio, ckbx_shortest, ckbx_static_img, btn_openaudio,
                   returned>>

\* the click on 'Enable a single still image': the checkbox has no handler
on_static_img ==
    /\ ckbx_static_img' = ~ckbx_static_img
    /\ UNCHANGED <<data_files, time_seq, concat_vars, frame_vars, parent_vars, opt,
                   ckbx_audio, ckbx_shortest, btn_openaudio, txt_addparams,
                   returned>>

\* timeline of lines 555-558
timeline_of(seq) == IF seq[4] = ZERO_CLOCK THEN ONE_SECOND ELSE seq[4]

\* what get_args_line computes from the options o and the timeline words
\* (lines 555-565)
args_line(o, seq) ==
    IF ckbx_static_img
    THEN build_command_loop_image(o, timeline_of(seq))
    ELSE build_command_slideshow(o, timeline_of(seq))

\* get_args_line (lines 551-565), as on_start calls it (line 602)
get_args_line ==
    LET built == args_line(opt, time_seq)
    IN  /\ opt' = built.opt
        /\ returned' = <<[cmd |-> built.cmd, duration |-> built.duration]>>
        /\ UNCHANGED <<data_files, time_seq, concat_vars, frame_vars, parent_vars,
                       ckbx_audio, ckbx_shortest, ckbx_static_img,
                       btn_openaudio, txt_addparams>>

\* the still image maker panel with one image or more imported
InitSlide ==
    /\ \E n \in 1..MaxFiles : data_files = [i \in 1..n |-> ImageFile(i)]
    /\ time_seq = time_seq_of(ZERO_CLOCK)
    /\ PanelInit
    /\ FrameInit
    /\ SlideInit

NextSlide ==
    \/ set_time_seq
    \/ on_enable_audio
    \/ on_shortest
    \/ on_addaudio_track
    \/ on_addparams
    \/ on_static_img
    \/ get_args_line

\* the panel in use: the options and the timeline are set and the command
\* line is built, in any order
SpecSlide == InitSlide /\ [][NextSlide]_vars

----------------------------------------------------------------------------
(* Properties *)

\* the verdict of compare_media_param on the imported files
Verdict == compare_media_param(data_files)

\* the signature of the i-th imported file, taken from its own record
SignatureOf(i) == file_signature(data_files[i].streams)

\* some file's signature differs from the first file's
SomeSignatureDiffers ==
    \E i \in 1..Len(data_files) : SignatureOf(i) # SignatureOf(1)

\* the last on_start ended with that message box
Answered(msg) == msgbox = msg /\ Verdict = msg

\* C1: for two or more files, same filename twice or not, the verdict is the
\* incompatibility error exactly when some file's signature differs from the
\* first file's, and None otherwise.
C1_ErrorIffSignatureDiffers ==
    Len(data_files) >= 2 =>
        /\ (Verdict = MSG_INCOMPATIBLE) <=> SomeSignatureDiffers
        /\ ~SomeSignatureDiffers => Verdict = None

\* C2: a single file is always answered with the 'at least two files' error,
\* whatever its streams.
C2_SingleFileRejected ==
    Len(data_files) = 1 => Verdict = MSG_AT_LEAST_TWO

\* C2 witness: Start was pressed with one file imported and the error shown.
C2_Witness ==
    /\ Len(data_files) = 1
    /\ data_files[1].streams # <<>>
    /\ Answered(MSG_AT_LEAST_TWO)

\* the imported files in the order p
Permuted(p) == [i \in 1..Len(data_files) |-> data_files[p[i]]]

\* C3: files with identical signatures pass, and the verdict is the same for
\* every permutation of the files.
C3_PermutationInvariant ==
    /\ (Len(data_files) >= 2 /\ ~SomeSignatureDiffers) => Verdict = None
    /\ \A p \in Permutations(1..Len(data_files)) :
            compare_media_param(Permuted(p)) = Verdict

\* the k-th stream is a video stream in both files and the two differ in its
\* width, its height or both
VideoSizeDiffersAt(f, g, k) ==
    /\ f.streams[k].codec_type = "video"
    /\ g.streams[k].codec_type = "video"
    /\ f.streams[k].index = g.streams[k].index
    /\ f.streams[k].codec_name = g.streams[k].codec_name
    /\ \/ f.streams[k].width # g.streams[k].width
       \/ f.streams[k].height # g.streams[k].height

\* the k-th stream is an audio stream in both files and the two differ in its
\* sample rate
SampleRateDiffersAt(f, g, k) ==
    /\ f.streams[k].codec_type = "audio"
    /\ g.streams[k].codec_type = "audio"
    /\ f.streams[k].index = g.streams[k].index
    /\ f.streams[k].codec_name = g.streams[k].codec_name
    /\ f.streams[k].sample_rate # g.streams[k].sample_rate

\* every stream but the k-th is the same in both files
SameButStream(f, g, k) ==
    /\ Len(f.streams) = Len(g.streams)
    /\ k \in 1..Len(f.streams)
    /\ \A j \in 1..Len(f.streams) : j # k => f.streams[j] = g.streams[j]

\* two files of distinct names are imported
TwoDistinctFiles ==
    /\ Len(data_files) = 2
    /\ data_files[1].format.filename # data_files[2].format.filename

\* the two files differ only in the size of one video stream
DifferOnlyInVideoSize ==
    /\ TwoDistinctFiles
    /\ \E k \in 1..Len(data_files[1].streams) :
          /\ SameButStream(data_files[1], data_files[2], k)
          /\ VideoSizeDiffersAt(data_files[1], data_files[2], k)

\* the two files differ only in the sample rate of one audio stream
DifferOnlyInSampleRate ==
    /\ TwoDistinctFiles
    /\ \E k \in 1..Len(data_files[1].streams) :
          /\ SameButStream(data_files[1], data_files[2], k)
          /\ SampleRateDiffersAt(data_files[1], data_files[2], k)

\* C4: two files of distinct names that differ only in the width or the
\* height of one video stream get the incompatibility error.
C4_VideoSizeMismatchRejected ==
    DifferOnlyInVideoSize => Verdict = MSG_INCOMPATIBLE

\* C4 witness: two files with an equal second stream, whose video streams have
\* the same width and another height; Start was pressed and the error shown.
C4_Witness ==
    /\ DifferOnlyInVideoSize
    /\ Len(data_files[1].streams) = 2
    /\ \E k \in 1..2 :
          /\ VideoSizeDiffersAt(data_files[1], data_files[2], k)
          /\ data_files[1].streams[k].width = data_files[2].streams[k].width
    /\ Answered(MSG_INCOMPATIBLE)

\* C5: two files of distinct names that differ only in the sample rate of one
\* audio stream get the incompatibility error.
C5_SampleRateMismatchRejected ==
    DifferOnlyInSampleRate => Verdict = MSG_INCOMPATIBLE

\* C5 witness: two files with an equal video stream, whose audio streams have
\* another sample rate; Start was pressed and the error shown.
C5_Witness ==
    /\ DifferOnlyInSampleRate
    /\ Len(data_files[1].streams) = 2
    /\ Answered(MSG_INCOMPATIBLE)

\* whether a stream takes part in the comparison
IsAudioOrVideo(items) == items.codec_type \in {"video", "audio"}

\* a file's record with nothing left but what the claim lets decide: its
\* name and its video and audio streams
ComparedPart(f) ==
    [format |-> [filename |-> f.format.filename],
     streams |-> SelectSeq(f.streams, IsAudioOrVideo)]

NoAudioVideoAnywhere ==
    \A i \in 1..Len(data_files) :
        \A k \in 1..Len(data_files[i].streams) :
            ~IsAudioOrVideo(data_files[i].streams[k])

\* C7: two or more files without any video or audio stream all have the
\* empty signature and pass.
C7_NoStreamsPass ==
    (Len(data_files) >= 2 /\ NoAudioVideoAnywhere) =>
        /\ \A i \in 1..Len(data_files) : SignatureOf(i) = <<>>
        /\ Verdict = None

\* C7 witness: three files with subtitle streams only were passed to
\* processing.
C7_Witness ==
    /\ Len(data_files) = 3
    /\ NoAudioVideoAnywhere
    /\ proc # NoCall
    /\ proc[1].filesrc = file_src

\* C8: an empty filename -> signature map gives 'Invalid data found', and the
\* map is empty exactly when there is no file.
C8_EmptyMapIsInvalidData ==
    /\ build_com(data_files) = <<>> <=> data_files = <<>>
    /\ build_com(data_files) = <<>> => Verdict = MSG_INVALID

\* C8 witness: Start was pressed with no file and 'Invalid data found' shown.
C8_Witness ==
    /\ data_files = <<>>
    /\ Answered(MSG_INVALID)

\* C9: an on_start that finds an error writes no list file, leaves self.args
\* and self.duration as they were and calls neither check_files nor
\* switch_to_processing.  (A step that leaves data_files alone is on_start.)
C9_ErrorAborts ==
    [][(data_files' = data_files /\ Verdict # None) =>
          /\ flist' = flist
          /\ args' = args
          /\ self_duration' = self_duration
          /\ checked' = checked
          /\ proc' = proc]_vars

\* C9 witness: the error is on screen while the list file, the duration and
\* the processing call are still those of an earlier, shorter list of files.
C9_Witness ==
    /\ Answered(MSG_INCOMPATIBLE)
    /\ flist # NotWritten
    /\ flist # JoinLines(textstr_of(file_src))
    /\ self_duration # SumSeq(duration)
    /\ proc # NoCall
    /\ proc[1].filesrc # file_src

RECURSIVE SplitLines(_)
\* the lines of a text, cut at its newlines
SplitLines(text) ==
    LET I == {i \in 1..Len(text) : text[i] = "\n"}
    IN  IF I = {} THEN <<text>>
        ELSE LET n == CHOOSE i \in I : \A j \in I : i <= j
             IN  <<SubSeq(text, 1, n - 1)>>
                 \o SplitLines(SubSeq(text, n + 1, Len(text)))

RECURSIVE Unquoted(_, _)
\* how the concat demuxer reads a quoted word: inside '...' every character
\* stands for itself, outside a backslash keeps the next character
Unquoted(s, inQuote) ==
    IF s = <<>> THEN <<>>
    ELSE IF Head(s) = "'" THEN Unquoted(Tail(s), ~inQuote)
    ELSE IF ~inQuote /\ Head(s) = "\\" /\ Len(s) >= 2
         THEN <<s[2]>> \o Unquoted(Tail(Tail(s)), inQuote)
    ELSE <<Head(s)>> \o Unquoted(Tail(s), inQuote)

\* the line is a "file '...'" directive naming the file f
IsEntryFor(line, f) ==
    /\ Len(line) >= 7
    /\ SubSeq(line, 1, 6) = <<"f", "i", "l", "e", " ", "'">>
    /\ line[Len(line)] = "'"
    /\ Unquoted(SubSeq(line, 6, Len(line)), FALSE) = f

\* the text is one "file '...'" line per file of parent.file_src, in order
ListsFileSrc(text) ==
    LET lines == SplitLines(text)
    IN  /\ Len(lines) = Len(file_src)
        /\ \A i \in 1..Len(lines) : IsEntryFor(lines[i], file_src[i])

\* C10: an on_start whose check passes writes the list file as one
\* "file '...'" entry per file of parent.file_src, in that order (it writes it
\* whenever the first file's name has an extension), and a call of
\* switch_to_processing carries the sum of parent.duration.
C10_ListAndDuration ==
    [][(data_files' = data_files /\ Verdict = None) =>
          /\ HasExt(file_src[1]) => ListsFileSrc(flist')
          /\ flist' # flist => ListsFileSrc(flist')
          /\ proc' # proc =>
                /\ proc'[1].duration = SumSeq(duration)
                /\ proc'[1].filesrc = file_src
                /\ ListsFileSrc(flist')]_vars

\* C10 witness: three files, one with a quote in its name, are in the list
\* file in the order they were imported and were passed to processing with
\* the sum of their durations.
C10_Witness ==
    /\ Len(data_files) = 3
    /\ file_src[1] # file_src[2]
    /\ \E i \in 1..3 : file_src[i] = NameB
    /\ Verdict = None
    /\ ListsFileSrc(flist)
    /\ proc # NoCall
    /\ proc[1].filesrc = file_src
    /\ proc[1].duration = SumSeq(duration)
    /\ proc[1].duration = self_duration

----------------------------------------------------------------------------
(* Properties of the still image maker panel *)

\* the time of one image in milliseconds, from the number the timeline was
\* set to: one second stands in for an empty timeline
PerImageMs ==
    LET ms == CHOOSE m \in TimelineMs : time_seq[4] = milliseconds2clock(m)
    IN  IF ms = 0 THEN 1000 ELSE ms

\* the last return of get_args_line
Returned == returned[1]

\* the label of the shortest option
ShortestLabel == opt.Shortest[2]

\* C11: in slideshow mode without audio, get_args_line returns the time of
\* one image times the number of files as the total, and leaves the clock
\* text of that total in opt["Clock"].
C11_SlideshowTotal ==
    [][(get_args_line /\ ~ckbx_static_img /\ ~ckbx_audio) =>
          /\ returned'[1].duration = PerImageMs * Len(file_src)
          /\ opt'.Clock = milliseconds2clock(PerImageMs * Len(file_src))]_vars

\* C11 witness: three images of 1000 ms each gave 3000 ms, an interval of 1
\* and the clock 00:00:03.000.
C11_Witness ==
    /\ ~ckbx_static_img /\ ~ckbx_audio
    /\ Len(file_src) = 3
    /\ time_seq[4] = <<"0", "0", ":", "0", "0", ":", "0", "1", ".", "0", "0", "0">>
    /\ returned # NoCall
    /\ Returned.duration = 3000
    /\ opt.Interval = 1
    /\ opt.Clock = <<"0", "0", ":", "0", "0", ":", "0", "3", ".", "0", "0", "0">>

\* C12: in still image mode without audio, get_args_line returns the time of
\* the one image as the total, not multiplied by the number of files, and
\* opt["Clock"] is the clock text of it.
C12_LoopTotal ==
    [][(get_args_line /\ ckbx_static_img /\ ~ckbx_audio) =>
          /\ returned'[1].duration = PerImageMs
          /\ opt'.Clock = milliseconds2clock(PerImageMs)]_vars

\* C12 witness: a still image of 2500 ms with three files imported gave
\* 2500 ms and the clock 00:00:02.500.
C12_Witness ==
    /\ ckbx_static_img /\ ~ckbx_audio
    /\ Len(file_src) = 3
    /\ PerImageMs = 2500
    /\ returned # NoCall
    /\ Returned.duration = 2500
    /\ opt.Clock = <<"0", "0", ":", "0", "0", ":", "0", "2", ".", "5", "0", "0">>

\* C13: with the audio checkbox checked and the shortest label "Disabled",
\* both builders return the audio duration as the total and leave its clock
\* text in opt["Clock"].
C13_AudioRules ==
    [][(get_args_line /\ ckbx_audio /\ ShortestLabel = "Disabled") =>
          /\ returned'[1].duration = opt.ADuration
          /\ opt'.Clock = milliseconds2clock(opt.ADuration)]_vars

\* C13 witness: an audio file of 12345 ms gave 12345 ms and the clock
\* 00:00:12.345 for images of another duration.
C13_Witness ==
    /\ ckbx_audio /\ ShortestLabel = "Disabled"
    /\ opt.ADuration = 12345
    /\ PerImageMs * Len(file_src) # 12345
    /\ returned # NoCall
    /\ Returned.duration = 12345
    /\ opt.Clock = <<"0", "0", ":", "0", "0", ":", "1", "2", ".", "3", "4", "5">>

\* C14: with the audio checkbox checked and the shortest label "Enabled", the
\* total ignores the audio duration: the time of one image times the number
\* of files for a slideshow, the time of the image for a still image.
C14_ImagesRule ==
    [][(get_args_line /\ ckbx_audio /\ ShortestLabel = "Enabled") =>
          returned'[1].duration =
              IF ckbx_static_img THEN PerImageMs
              ELSE PerImageMs * Len(file_src)]_vars

\* C14 witness: a slideshow of two images of 2500 ms with an audio file of
\* 12345 ms loaded gave 5000 ms.
C14_Witness ==
    /\ ckbx_audio /\ ShortestLabel = "Enabled"
    /\ ~ckbx_static_img
    /\ opt.ADuration = 12345
    /\ Len(file_src) = 2
    /\ PerImageMs = 2500
    /\ returned # NoCall
    /\ Returned.duration = 5000

\* what get_args_line builds in the current state
Built == args_line(opt, time_seq)

\* the command holds the flag -shortest
HasShortest(cmd) == \E i \in 1..Len(cmd) : cmd[i] = "-shortest"

\* C15 as stated: in every reachable state the label "Enabled" means the
\* built command does not contain -shortest, and the label "Disabled" with
\* the audio checkbox checked means it does.
C15_LabelInverted ==
    /\ ShortestLabel = "Enabled" => ~HasShortest(Built.cmd)
    /\ (ShortestLabel = "Disabled" /\ ckbx_audio) => HasShortest(Built.cmd)

\* C15: in every reachable state the label "Enabled" goes with the flag
\* -shortest and a checked audio checkbox, and the built command contains
\* -shortest; the label "Disabled" goes with an empty flag, and the built
\* command does not contain -shortest.
C15_LabelIsFlag ==
    /\ ShortestLabel \in {"Enabled", "Disabled"}
    /\ ShortestLabel = "Enabled" =>
          /\ ckbx_audio
          /\ opt.Shortest[1] = "-shortest"
          /\ HasShortest(Built.cmd)
    /\ ShortestLabel = "Disabled" =>
          /\ opt.Shortest[1] = ""
          /\ ~HasShortest(Built.cmd)

\* C15 witness: with the label "Enabled" a command with -shortest was
\* returned.
C15_Witness ==
    /\ ShortestLabel = "Enabled"
    /\ returned # NoCall
    /\ Returned.cmd = Built.cmd
    /\ HasShortest(Returned.cmd)

\* the integer nearest to ms / 1000, the even one of two
NearestSecond(ms) ==
    CHOOSE k \in 0..(ms \div 1000 + 1) :
        LET d == IF 1000 * k >= ms THEN 1000 * k - ms ELSE ms - 1000 * k
        IN  /\ 2 * d <= 1000
            /\ 2 * d = 1000 => k % 2 = 0

\* C16 as stated: in every mode get_args_line leaves in opt["Interval"] a
\* non-negative integer, the time of one image in seconds rounded to the
\* nearest.
C16_IntervalOfImage ==
    [][get_args_line =>
          /\ opt'.Interval >= 0
          /\ opt'.Interval = NearestSecond(PerImageMs)]_vars

\* C16: get_args_line leaves in opt["Interval"] a non-negative integer: for
\* a still image with the audio checkbox checked and the label "Disabled",
\* the audio duration in seconds rounded to the nearest, a tie to the even
\* one; in every other mode the time of one image rounded so.
C16_IntervalByMode ==
    [][get_args_line =>
          /\ opt'.Interval >= 0
          /\ opt'.Interval =
                IF ckbx_static_img /\ ckbx_audio /\ ShortestLabel = "Disabled"
                THEN NearestSecond(opt.ADuration)
                ELSE NearestSecond(PerImageMs)]_vars

\* C16 witness: a still image of 2500 ms with an audio file of 12345 ms and
\* the label "Disabled" left the interval 12.
C16_Witness ==
    /\ ckbx_static_img /\ ckbx_audio /\ ShortestLabel = "Disabled"
    /\ opt.ADuration = 12345
    /\ PerImageMs = 2500
    /\ returned # NoCall
    /\ opt.Interval = 12

\* the options with the fields the builders write as the constructor left
\* them
Fresh(o) ==
    [o EXCEPT !.Clock = opt_init.Clock, !.Preinput = opt_init.Preinput,
              !.Interval = opt_init.Interval]

\* C18: get_args_line returns the command and the duration, and leaves the
\* Clock, Preinput and Interval, that it would with no builder call before
\* it, and a second call in the same state changes nothing.
C18_HistoryIndependent ==
    [][get_args_line =>
          LET fresh == args_line(Fresh(opt), time_seq)
              again == args_line(opt', time_seq')
          IN  /\ returned'[1] = [cmd |-> fresh.cmd, duration |-> fresh.duration]
              /\ opt' = fresh.opt
              /\ again.opt = opt'
              /\ [cmd |-> again.cmd, duration |-> again.duration] = returned'[1]]_vars

\* C18 witness: get_args_line was called with the audio duration ruling, and
\* a call now returns the same and leaves the options as they are.
C18_Witness ==
    /\ returned # NoCall
    /\ ckbx_audio /\ ShortestLabel = "Disabled" /\ opt.ADuration = 12345
    /\ Returned.duration = 12345
    /\ Built.opt = opt
    /\ Built.cmd = Returned.cmd
    /\ Built.duration = Returned.duration

\* an audio file is loaded: AudioMerging names it and ADuration is its
\* duration
AudioLoaded ==
    \E f \in AudioFiles :
        /\ opt.AudioMerging = "-i \"" \o f.pathname \o "\""
        /\ opt.ADuration = audio_milliseconds(f.duration)

\* C19: in every reachable state the audio checkbox is checked, and the
\* builders take the branches for an attached audio file, exactly when an
\* audio file is loaded.
C19_AudioCheckedIffLoaded == ckbx_audio <=> AudioLoaded

\* the clock '-01:00:00.000': an hour before the start
MINUS_ONE_HOUR == <<"-", "0", "1", ":", "0", "0", ":", "0", "0", ".", "0", "0", "0">>

\* the clocks parent.time_seq is tried with: a duration of 2500 ms, and a
\* negative one
AnyClocks == {milliseconds2clock(2500), MINUS_ONE_HOUR}

\* get_args_line tried on any clock text, a negative one too
InitAnyClock ==
    /\ \E n \in 1..MaxFiles : data_files = [i \in 1..n |-> ImageFile(i)]
    /\ \E c \in AnyClocks : time_seq = time_seq_of(c)
    /\ PanelInit
    /\ FrameInit
    /\ SlideInit

NextAnyClock ==
    \/ on_enable_audio
    \/ on_shortest
    \/ on_addaudio_track
    \/ on_static_img
    \/ get_args_line

SpecAnyClock == InitAnyClock /\ [][NextAnyClock]_vars

\* C17: get_args_line rejects a negative time of one image: it returns
\* nothing and writes no option.
C17_NegativeRejected ==
    [][(get_args_line /\ get_milliseconds(timeline_of(time_seq)) < 0) =>
          UNCHANGED <<opt, returned>>]_vars

----------------------------------------------------------------------------
(* MainFrame of videomass3: main_frame.py *)

AV_CONVERSIONS == "Audio/Video Conversions"

PRESETS_MANAGER == "Presets Manager"

MSG_DRAG_ONE_FILE == "Drag at least one file"

MSG_APPEND_ONE_URL == "Append at least one URL"

YOUTUBE_DOWNLOADER == "Youtube Downloader"

\* the files the user can drop on the import panel: two videos, and an
\* image, for which FFprobe gives no duration
FrameFiles ==
    { ProbedFile(NameA, <<VideoStream(0, "h264", 11, 11)>>),
      ProbedFile(NameB, <<VideoStream(0, "h264", 11, 11)>>),
      [ImageFile(1) EXCEPT !.format.duration = 0] }

\* the clocks of the duration dialog: 'HH:MM:SS'
CLOCK_0 == <<"0", "0", ":", "0", "0", ":", "0", "0">>

CLOCK_5S == <<"0", "0", ":", "0", "0", ":", "0", "5">>

CLOCK_1H == <<"0", "1", ":", "0", "2", ":", "0", "3">>

\* the words of the text the duration dialog returns
CutData ==
    { << <<"-", "s", "s">>, ss, <<"-", "t">>, t >> :
        ss \in {CLOCK_0, CLOCK_5S}, t \in {CLOCK_0, CLOCK_1H} }

\* int(h) * 3600 + int(m) * 60 + int(s) of lines 419-420 and 422-423
clock_seconds(clock) ==
    LET hms == SplitOn(clock, ":")
    IN  StrToInt(hms[1]) * 3600 + StrToInt(hms[2]) * 60 + StrToInt(hms[3])

\* Cut_range that leaves time_read as it is when the dialog returns the
\* text of no range
cut_range_keeps_time_read(seq, read, retcode, data) ==
    IF retcode = "ID_OK"
    THEN IF data[2] = CLOCK_0 /\ data[4] = CLOCK_0
         THEN [time_seq |-> <<>>, time_read |-> read]
         ELSE [time_seq |-> data,
               time_read |-> [start_seek |-> <<data[2], clock_seconds(data[2])>>,
                              time |-> <<data[4], clock_seconds(data[4])>>]]
    ELSE [time_seq |-> seq, time_read |-> read]

\* what Cut_range (lines 404-430) leaves in time_seq and time_read, for the
\* return code of the dialog and the text it holds
cut_range_result(seq, read, retcode, data) ==
    IF retcode = "ID_OK"
    THEN IF data[2] = CLOCK_0 /\ data[4] = CLOCK_0           \* line 410
         THEN [time_seq |-> <<>>,
               time_read |-> [start_seek |-> <<NoText, NoText>>,
                              time |-> <<NoText, NoText>>]]
         ELSE [time_seq |-> data,
               time_read |-> [start_seek |-> <<data[2], clock_seconds(data[2])>>,
                              time |-> <<data[4], clock_seconds(data[4])>>]]
    ELSE [time_seq |-> seq, time_read |-> read]              \* lines 428-430

\* Cut_range (lines 399-430): the duration dialog is cancelled, or confirmed
\* with a text
Cut_range ==
    /\ frame.btnpanel
    /\ \E retcode \in {"ID_OK", "ID_CANCEL"}, data \in CutData :
         LET result == cut_range_result(time_seq, time_read, retcode, data)
         IN  /\ time_seq' = result.time_seq
             /\ time_read' = result.time_read
    /\ UNCHANGED <<data_files, concat_vars, frame, dropped, topic, slide_vars, parent_vars>>

\* the items of the View menu that jump to a panel
PAN_ITEMS == {"avpan", "prstpan", "ydlpan", "startpan"}

\* File_import (lines 1257-1278) and Text_import (lines 1281-1303) called
\* with which on the frame fr: the frame they leave, with the import panel
\* shown
import_panel(fr, which, panel) ==
    [fr EXCEPT
       !.topicname = which,
       !.shown = (@ \ {"fileDnDTarget", "textDnDTarget", "ytDownloader",
                       "VconvPanel", "ChooseTopic", "PrstsPanel"})
                   \cup {panel},
       !.items = PAN_ITEMS,
       !.toolbar = TRUE,
       !.btnpanel = FALSE]

\* File_import as the home panel calls it, after the choice of a topic that
\* works on files
File_import ==
    /\ "ChooseTopic" \in frame.shown
    /\ \E which \in {AV_CONVERSIONS, PRESETS_MANAGER} :
         frame' = import_panel(frame, which, "fileDnDTarget")
    /\ UNCHANGED <<data_files, time_seq, concat_vars, time_read, dropped,
                   topic, slide_vars, parent_vars>>

\* Text_import as the home panel calls it, after the choice of the
\* downloader
Text_import ==
    /\ "ChooseTopic" \in frame.shown
    /\ frame' = import_panel(frame, YOUTUBE_DOWNLOADER, "textDnDTarget")
    /\ UNCHANGED <<data_files, time_seq, concat_vars, time_read, dropped,
                   topic, slide_vars, parent_vars>>

\* the user drops one more file on the import panel
DropFile ==
    /\ "fileDnDTarget" \in frame.shown
    /\ Len(dropped) < MaxFiles
    /\ \E f \in FrameFiles : dropped' = Append(dropped, f)
    /\ UNCHANGED <<data_files, time_seq, concat_vars, time_read, frame, topic,
                   slide_vars, parent_vars>>

\* filenames of lines 1347-1349 and 1386-1388
filenames_of(data) ==
    LET named == SelectSeq(data, LAMBDA f : f.format.filename # <<>>)
    IN  [i \in 1..Len(named) |-> named[i].format.filename]

\* the list of lines 1355-1357 and 1394-1396
durations_of(data) ==
    LET timed == SelectSeq(data, LAMBDA f : f.format.duration # 0)
    IN  [i \in 1..Len(timed) |-> timed[i].format.duration]

\* switch_av_conversions (lines 1338-1373) and switch_presets_manager
\* (lines 1376-1413) on the frame fr with the files data: the frame they leave
switch_panel(fr, data, panel) ==
    LET kept == [fr EXCEPT
                   !.shown = (@ \ {"fileDnDTarget", "textDnDTarget", "ytDownloader",
                                   "VconvPanel", "PrstsPanel"}) \cup {panel},
                   !.items = PAN_ITEMS \ {IF panel = "VconvPanel" THEN "avpan"
                                          ELSE "prstpan"},
                   !.toolbar = TRUE,
                   !.btnpanel = TRUE]
    IN  IF filenames_of(data) # fr.file_src
        THEN [kept EXCEPT !.file_src = filenames_of(data),
                          !.duration = durations_of(data)]
        ELSE kept

\* youtube_Downloader (lines 1304-1336) called with the URLs data on the
\* frame fr: the frame it leaves
youtube_Downloader(fr, data) ==
    [fr EXCEPT
       !.data_url = data,
       !.shown = (@ \ {"fileDnDTarget", "textDnDTarget", "VconvPanel",
                       "PrstsPanel"}) \cup {"ytDownloader"},
       !.items = PAN_ITEMS \ {"ydlpan"},
       !.toolbar = TRUE,
       !.btnpanel = TRUE]

\* choosetopicRetrieve that hides the import panels only
choosetopicRetrieve_keeps_topic(fr) ==
    [fr EXCEPT
       !.topicname = None,
       !.shown = (@ \ {"textDnDTarget", "fileDnDTarget"}) \cup {"ChooseTopic"},
       !.items = {},
       !.toolbar = FALSE,
       !.btnpanel = FALSE]

\* choosetopicRetrieve (lines 349-370) on the frame fr: the frame it leaves
choosetopicRetrieve(fr) ==
    [fr EXCEPT
       !.topicname = None,
       !.shown = (@ \ ({"textDnDTarget", "fileDnDTarget"} \cup
                        (IF "ytDownloader" \in @ THEN {"ytDownloader"}
                         ELSE IF "VconvPanel" \in @ THEN {"VconvPanel"}
                         ELSE IF "PrstsPanel" \in @ THEN {"PrstsPanel"}
                         ELSE {}))) \cup {"ChooseTopic"},
       !.items = {},
       !.toolbar = FALSE,
       !.btnpanel = FALSE]

\* the URLs textDnDTarget.topic_Redirect() gives: the lines of the text box
UrlData == {<<>>, <<"https://a">>, <<"https://a", "https://b">>}

\* on_Forward (lines 1231-1255) called on the frame fr, where files is what
\* fileDnDTarget.on_Redirect() gives and urls what
\* textDnDTarget.topic_Redirect() gives: the frame, the files and the
\* message box it leaves
on_Forward_result(fr, files, urls) ==
    IF fr.topicname \in {AV_CONVERSIONS, PRESETS_MANAGER}
    THEN IF files = <<>>
         THEN [frame |-> fr, data_files |-> data_files,
               msgbox |-> MSG_DRAG_ONE_FILE]                 \* lines 1237-1240
         ELSE [frame |-> switch_panel(fr, files,
                                      IF fr.topicname = AV_CONVERSIONS
                                      THEN "VconvPanel" ELSE "PrstsPanel"),
               data_files |-> files, msgbox |-> msgbox]
    ELSE IF fr.topicname = YOUTUBE_DOWNLOADER
    THEN IF urls = <<>>
         THEN [frame |-> fr, data_files |-> data_files,
               msgbox |-> MSG_APPEND_ONE_URL]                \* lines 1251-1254
         ELSE [frame |-> youtube_Downloader(fr, urls),
               data_files |-> data_files, msgbox |-> msgbox]
    ELSE [frame |-> fr, data_files |-> data_files, msgbox |-> msgbox]

\* on_Forward (lines 1231-1255), after the click on the Forward tool, which
\* the import panels enable (lines 1274 and 1297)
on_Forward ==
    /\ frame.toolbar
    /\ \/ "fileDnDTarget" \in frame.shown
       \/ "textDnDTarget" \in frame.shown
    /\ \E urls \in UrlData :
         LET left == on_Forward_result(frame, dropped, urls)
         IN  /\ frame' = left.frame
             /\ data_files' = left.data_files
             /\ msgbox' = left.msgbox
    /\ UNCHANGED <<time_seq, args, self_duration, flist, checked, proc,
                   time_read, dropped, topic, slide_vars, parent_vars>>

\* the list switch_Process hands on is always self.duration
process_duration_real(fr) == fr.duration

\* duration of lines 1430-1436
process_duration(fr) ==
    IF time_seq # <<>>
    THEN [n \in 1..Len(fr.duration) |-> time_read.time[2]]
    ELSE fr.duration

\* switch_Process that leaves the tool bar and the menus as they are
switch_Process_keeps_menus(fr, varargs) ==
    /\ frame' = [fr EXCEPT
                   !.btnpanel = FALSE,
                   !.shown = {"ProcessPanel"},
                   !.title = "Processing Status - Videomass"]
    /\ topic' = <<[topicname |-> fr.topicname, varargs |-> varargs,
                   duration |-> process_duration(fr)]>>

\* switch_Process (lines 1416-1450) called with varargs on the frame fr
switch_Process(fr, varargs) ==
    /\ frame' = [fr EXCEPT
                   !.btnpanel = FALSE,
                   !.shown = (@ \ {"fileDnDTarget", "textDnDTarget", "ytDownloader",
                                   "VconvPanel", "PrstsPanel"})
                               \cup {"ProcessPanel"},
                   !.title = "Processing Status - Videomass",
                   !.menus = FALSE,
                   !.toolbar = FALSE]
    /\ topic' = <<[topicname |-> fr.topicname, varargs |-> varargs,
                   duration |-> process_duration(fr)]>>

\* the arguments a panel starts a process with
VarArgs == {"onepass", "twopass"}

\* Run_Coding (lines 1453-1470) on the downloader, the conversions or the
\* presets panel: the panel's on_start gives up, or calls switch_Process
Run_Coding ==
    /\ frame.toolbar
    /\ \/ "ytDownloader" \in frame.shown
       \/ "VconvPanel" \in frame.shown
       \/ "PrstsPanel" \in frame.shown
    /\ LET fr == IF "ytDownloader" \in frame.shown THEN frame
                 ELSE [frame EXCEPT !.file_src = filenames_of(data_files)]
       IN  \/ frame' = fr /\ UNCHANGED topic
           \/ \E varargs \in VarArgs : switch_Process(fr, varargs)
    /\ UNCHANGED <<data_files, time_seq, concat_vars, time_read, dropped,
                   slide_vars, parent_vars>>

\* the frame the handlers of the View menu and of the tool bar leave, which
\* change nothing else but the files and the message box
leave(left) ==
    /\ frame' = left.frame
    /\ data_files' = left.data_files
    /\ msgbox' = left.msgbox
    /\ UNCHANGED <<time_seq, args, self_duration, flist, checked, proc,
                   time_read, dropped, topic, slide_vars, parent_vars>>

\* on_Back (lines 1219-1228), after the click on the Back tool
on_Back ==
    /\ frame.toolbar
    /\ leave([frame |-> IF \/ "textDnDTarget" \in frame.shown
                            \/ "fileDnDTarget" \in frame.shown
                         THEN choosetopicRetrieve(frame)
                         ELSE IF frame.topicname \in {AV_CONVERSIONS, PRESETS_MANAGER}
                         THEN import_panel(frame, frame.topicname, "fileDnDTarget")
                         ELSE IF frame.topicname = YOUTUBE_DOWNLOADER
                         THEN import_panel(frame, frame.topicname, "textDnDTarget")
                         ELSE frame,
              data_files |-> data_files, msgbox |-> msgbox])

\* startPan (lines 994-998), after the choice of 'Home panel' in the View
\* menu
startPan ==
    /\ frame.menus /\ "startpan" \in frame.items
    /\ leave([frame |-> choosetopicRetrieve(frame), data_files |-> data_files,
              msgbox |-> msgbox])

\* prstPan (lines 1001-1009), after the choice of 'Presets manager'
prstPan ==
    /\ frame.menus /\ "prstpan" \in frame.items
    /\ \E urls \in UrlData :
         leave(IF frame.file_src = <<>>
               THEN [frame |-> frame, data_files |-> data_files, msgbox |-> msgbox]
               ELSE on_Forward_result([frame EXCEPT !.topicname = PRESETS_MANAGER],
                                      dropped, urls))

\* avPan (lines 1012-1020), after the choice of 'A/V conversions'
avPan ==
    /\ frame.menus /\ "avpan" \in frame.items
    /\ \E urls \in UrlData :
         leave(IF frame.file_src = <<>>
               THEN [frame |-> frame, data_files |-> data_files, msgbox |-> msgbox]
               ELSE on_Forward_result([frame EXCEPT !.topicname = AV_CONVERSIONS],
                                      dropped, urls))

\* ydlPan (lines 1023-1031), after the choice of 'YouTube downloader'
ydlPan ==
    /\ frame.menus /\ "ydlpan" \in frame.items
    /\ \E urls \in UrlData :
         leave(IF frame.data_url = <<>>
               THEN [frame |-> frame, data_files |-> data_files, msgbox |-> msgbox]
               ELSE on_Forward_result([frame EXCEPT !.topicname = YOUTUBE_DOWNLOADER],
                                      dropped, urls))

\* panelShown (lines 1473-1495) called with panelshown on the frame fr: the
\* frame it leaves
panelShown(fr, panelshown) ==
    LET hidden == [fr EXCEPT !.shown = @ \ {"ProcessPanel"}]
        back == IF panelshown = AV_CONVERSIONS
                THEN [switch_panel(hidden, data_files, "VconvPanel")
                        EXCEPT !.btnpanel = TRUE]
                ELSE IF panelshown = YOUTUBE_DOWNLOADER
                THEN youtube_Downloader(hidden, hidden.data_url)
                ELSE IF panelshown = PRESETS_MANAGER
                THEN [switch_panel(hidden, data_files, "PrstsPanel")
                        EXCEPT !.btnpanel = TRUE]
                ELSE fr
    IN  [back EXCEPT !.menus = TRUE, !.title = "Videomass"]

\* the click on the close button of the processing panel, which calls
\* panelShown with the topic that topic_thread was given
on_close_process ==
    /\ "ProcessPanel" \in frame.shown
    /\ frame' = panelShown(frame, topic[1].topicname)
    /\ UNCHANGED <<data_files, time_seq, concat_vars, time_read, dropped,
                   topic, slide_vars, parent_vars>>

InitFrame ==
    /\ data_files = <<>>
    /\ time_seq = <<>>
    /\ PanelInit
    /\ FrameInit
    /\ SlideInit

NextFrame ==
    \/ File_import
    \/ DropFile
    \/ on_Forward
    \/ Cut_range
    \/ Run_Coding

\* the main frame in use: a topic is chosen, files are dropped, the duration
\* is set and a process is started
SpecFrame == InitFrame /\ [][NextFrame]_vars

\* the main frame in use: the user goes from panel to panel with the home
\* panel, the tool bar and the View menu, and starts and closes processes
NextNav ==
    \/ File_import
    \/ Text_import
    \/ DropFile
    \/ on_Forward
    \/ on_Back
    \/ startPan
    \/ prstPan
    \/ avPan
    \/ ydlPan
    \/ Run_Coding
    \/ on_close_process

SpecNav == InitFrame /\ [][NextNav]_vars

\* the last topic_thread call
Topic == topic[1]

\* C20: switch_Process passes to the processing panel a list with one entry
\* per entry of self.duration: every entry is time_read['time'][1] when
\* time_seq is not empty, and the list is self.duration itself otherwise.
C20_ProcessDuration ==
    [][topic' # topic =>
          /\ Len(topic'[1].duration) = Len(frame.duration)
          /\ time_seq # <<>> =>
                \A i \in 1..Len(frame.duration) :
                    topic'[1].duration[i] = time_read.time[2]
          /\ time_seq = <<>> => topic'[1].duration = frame.duration]_vars

\* C20 witness: with a time of 01:02:03 set, two files with a duration were
\* processed with 3723 seconds each.
C20_Witness ==
    /\ topic # NoCall
    /\ time_seq # <<>>
    /\ time_read.time[2] = 3723
    /\ frame.duration = <<1000, 2500>>
    /\ Topic.duration = <<3723, 3723>>

\* the seconds of a clock text 'HH:MM:SS', read digit by digit
HmsSeconds(clock) ==
    LET V(i) == CHOOSE d \in 0..9 : ToString(d) = clock[i]
    IN  (V(1) * 10 + V(2)) * 3600 + (V(4) * 10 + V(5)) * 60 + V(7) * 10 + V(8)

\* time_read holds no range: both entries are ['', '']
NoRangeRead ==
    /\ time_read.start_seek[1] = NoText /\ time_read.start_seek[2] = NoText
    /\ time_read.time[1] = NoText /\ time_read.time[2] = NoText

\* C28: after any sequence of Cut_range dialogs, time_seq is empty exactly
\* when both entries of time_read are ['', '']; when it is not empty, the
\* numbers of time_read are hours * 3600 + minutes * 60 + seconds of the -t
\* and the -ss value; a cancelled dialog leaves time_seq and time_read as
\* they are.
C28_CutRangeConsistent ==
    /\ (time_seq = <<>>) <=> NoRangeRead
    /\ time_seq # <<>> =>
          /\ time_read.time[1] = time_seq[4]
          /\ time_read.time[2] = HmsSeconds(time_seq[4])
          /\ time_read.start_seek[1] = time_seq[2]
          /\ time_read.start_seek[2] = HmsSeconds(time_seq[2])
    /\ \A data \in CutData :
          cut_range_result(time_seq, time_read, "ID_CANCEL", data)
              = [time_seq |-> time_seq, time_read |-> time_read]

\* C28 witness: Cut_range was confirmed with '-ss 00:00:05 -t 01:02:03'.
C28_Witness ==
    /\ time_seq # <<>>
    /\ time_read.start_seek = <<CLOCK_5S, 5>>
    /\ time_read.time = <<CLOCK_1H, 3723>>

----------------------------------------------------------------------------
(* The framerate of a slideshow, for the values of the timeline *)

\* the values the timeline is tried with, in milliseconds: zero, values that
\* round to zero seconds, ties, and more than a minute
TimelineValues == {0, 1, 400, 499, 500, 501, 1000, 1499, 1500, 2500, 59999, 3723004}

InitTimeline ==
    /\ \E n \in 1..MaxFiles : data_files = [i \in 1..n |-> ImageFile(i)]
    /\ \E ms \in TimelineValues : time_seq = time_seq_of(milliseconds2clock(ms))
    /\ PanelInit
    /\ FrameInit
    /\ SlideInit

NextTimeline ==
    \/ on_enable_audio
    \/ on_static_img
    \/ get_args_line

\* get_args_line tried on every value of the timeline
SpecTimeline == InitTimeline /\ [][NextTimeline]_vars

\* the number the timeline was set to, in milliseconds
TimelineValue ==
    CHOOSE ms \in TimelineValues : time_seq[4] = milliseconds2clock(ms)

\* the N of the last '1/N' of a text
FramerateN(text) ==
    StrToInt(SubSeq(text, LastIndexOf(text, "/") + 1, Len(text)))

MSG_SELECT_TARGET == "A target file must be selected in the queued files"
MSG_NOT_FRAME == "The file is not a frame or a video file"

\* sizing.getvalue() of line 330: a dictionary of the three filters, in the
\* order scale, setdar, setsar, the empty text for a filter that is not set
ScaleData ==
    [scale : {NoText, <<"s", "c", "a", "l", "e", "=", "w", "=", "6", "4", "0",
                        ":", "h", "=", "-", "1">>},
     setdar : {NoText, <<"s", "e", "t", "d", "a", "r", "=", "1", "6", "/", "9">>},
     setsar : {NoText, <<"s", "e", "t", "s", "a", "r", "=", "1", "/", "1">>}]

\* data.values() of lines 331 and 340
values(data) == <<data.scale, data.setdar, data.setsar>>

\* an audio file in the queue
SongFile ==
    [format |-> [filename |-> <<"s", "o", "n", "g", ".", "m", "p", "3">>,
        format_name |-> "mp3",
                 duration |-> 40],
     streams |-> <<AudioStream(0, "mp3", 44100)>>]

\* an image of w x h pixels in the queue
SizedImage(name, w, h) ==
    [format |-> [filename |-> name, format_name |-> "image2", duration |-> 40],
     streams |-> <<VideoStream(0, "mjpeg", w, h)>>]

\* file_selection (lines 270-288): the index in parent.file_src, from 1, of
\* the file to work on, or 0 when the message box of line 281 is shown
file_selection ==
    IF Len(file_src) = 1
    THEN 1
    ELSE IF filedropselected = NoText
         THEN 0
         ELSE CHOOSE i \in 1..Len(file_src) :
                  /\ file_src[i] = filedropselected
                  /\ \A j \in 1..(i - 1) : file_src[j] # filedropselected

\* 'video' in index['streams'][0]['codec_type'] of line 302, on the codec
\* types FFprobe tells
is_video(file) == file.streams[1].codec_type = "video"

\* the resize of line 331 leaves the filter line as it was
on_resizing_keeps_RESIZE(o, retcode, data) ==
    IF retcode = "ID_OK"
    THEN [o EXCEPT !.Scale = data.scale, !.Setdar = data.setdar,
                   !.Setsar = data.setsar]
    ELSE o

\* the options after the Scale dialog is closed with retcode and data
\* (lines 329-346)
on_resizing_result(o, retcode, data) ==
    IF retcode = "ID_OK"
    THEN IF \A i \in 1..3 : values(data)[i] = NoText                \* line 331
         THEN [o EXCEPT !.Setdar = NoText, !.Setsar = NoText,
                        !.Scale = NoText, !.RESIZE = NoText]
         ELSE LET RECURSIVE joined(_)
                  joined(i) == IF i > 3 THEN <<>>
                               ELSE IF values(data)[i] = NoText THEN joined(i + 1)
                               ELSE values(data)[i] \o <<",">> \o joined(i + 1)
                  flt == SubSeq(joined(1), 1, Len(joined(1)) - 1)      \* [:-1]
              IN  [o EXCEPT !.Scale = data.scale, !.Setdar = data.setdar,
                            !.Setsar = data.setsar,
                            !.RESIZE = IF flt # NoText
                                       THEN <<"-", "v", "f", " ">> \o flt
                                       ELSE o.RESIZE]
    ELSE o

\* on_resizing (lines 314-346), after the click on the Resize button; the
\* call of line 310 is of a method the class does not have, so the handler
\* ends there with an AttributeError
on_resizing ==
    /\ data_files # <<>>
    /\ IF file_selection = 0
       THEN /\ msgbox' = MSG_SELECT_TARGET                       \* line 281
            /\ opt' = opt
       ELSE IF ~is_video(data_files[file_selection])
       THEN /\ msgbox' = MSG_NOT_FRAME                           \* line 308
            /\ opt' = opt
       ELSE /\ msgbox' = msgbox
            /\ \E retcode \in {"ID_OK", "ID_CANCEL"}, data \in ScaleData :
                 opt' = on_resizing_result(opt, retcode, data)
    /\ UNCHANGED <<data_files, time_seq, args, self_duration, flist, checked,
                   proc, frame_vars, parent_vars, ckbx_audio, ckbx_shortest,
                   ckbx_static_img, btn_openaudio, txt_addparams, returned>>

\* reset_all_values (lines 242-257), with the call of on_enable_audio of
\* line 256 on the unchecked box
reset_all_values ==
    /\ opt' = [opt EXCEPT !.Scale = NoText, !.Setdar = NoText,
                          !.Setsar = NoText, !.RESIZE = NoText,
                          !.Preinput = <<"1", "/", "0">>,
                          !.Interval = NoInterval,
                          !.Clock = <<"0", "0", ":", "0", "0", ":", "0", "0",
                              ".", "0", "0", "0">>,
                          !.AudioMerging = "",
                          !.Map = "-map 0:v?",
                          !.ADuration = 0,
                          !.Shortest = <<"", "Disabled">>]
    /\ ckbx_static_img' = FALSE
    /\ ckbx_audio' = FALSE
    /\ btn_openaudio' = FALSE
    /\ ckbx_shortest' = [checked |-> FALSE, enabled |-> FALSE]
    /\ UNCHANGED <<data_files, time_seq, concat_vars, frame_vars, parent_vars,
                   txt_addparams, returned>>

\* the files in the queue of the panel: images and an audio file
QueueFiles == {SizedImage(<<"a", ".", "j", "p", "g">>, 11, 11),
    SizedImage(<<"b", ".", "j", "p", "g">>, 22, 11),
               SongFile}

\* the most files in the queue of the panel
MaxQueue == 2

\* the queues the user can fill: files in any order, none twice
Queues ==
    {q \in UNION {[1..n -> QueueFiles] : n \in 1..MaxQueue} :
        \A i, j \in 1..Len(q) : i # j => q[i] # q[j]}

\* the panel shown with files in the queue, one of them selected or none
InitOptions ==
    /\ data_files \in Queues
    /\ time_seq = time_seq_of(ZERO_CLOCK)
    /\ PanelInit
    /\ FrameInit
    /\ opt = opt_init
    /\ ckbx_audio = FALSE
    /\ ckbx_shortest = [checked |-> FALSE, enabled |-> FALSE]
    /\ ckbx_static_img = FALSE
    /\ btn_openaudio = FALSE
    /\ txt_addparams = FALSE
    /\ returned = NoCall
    /\ filedropselected \in {NoText} \cup {file_src[i] : i \in 1..Len(file_src)}
    /\ flCtrl = <<>>
    /\ isfile = {}

NextOptions ==
    \/ on_enable_audio
    \/ on_shortest
    \/ on_addaudio_track
    \/ on_static_img
    \/ on_resizing
    \/ reset_all_values

\* the options of the panel set and reset in any order
SpecOptions == InitOptions /\ [][NextOptions]_vars

\* ---------------------------------------------------------------------
\* The still image maker: on_start and its checks
\* (sequence_to_video.py, lines 45-63 and 496-623)
\* ---------------------------------------------------------------------

MSG_RESIZE == "Images need to be resized, please use Resizing function."

\* the characters of a text as one string
Text(chars) ==
    LET RECURSIVE text(_)
        text(i) == IF i > Len(chars) THEN "" ELSE chars[i] \o text(i + 1)
    IN  text(1)

\* word in text, of two texts
Contains(text, word) ==
    \E i \in 0..(Len(text) - Len(word)) :
        SubSeq(text, i + 1, i + Len(word)) = word

\* os.path.splitext(f)[1]: the file name from its last dot on, nothing when
\* the name has no dot after its first character
splitext(f) ==
    LET dot == LastIndexOf(f, ".")
    IN  IF dot <= 1 \/ f[dot - 1] = "/" THEN NoText ELSE SubSeq(f, dot, Len(f))

\* the extensions of lines 508-510 and 536-537
SUPPORTED ==
    {<<".", "j", "p", "e", "g">>, <<".", "j", "p", "g">>, <<".", "p", "n",
        "g">>, <<".", "b", "m", "p">>,
     <<".", "J", "P", "E", "G">>, <<".", "J", "P", "G">>, <<".", "P", "N",
         "G">>, <<".", "B", "M", "P">>}

\* the images are never compared
check_images_size_never(images) == None

\* check_images_size (lines 45-63): the message shown when the sizes differ,
\* None otherwise
check_images_size(images) ==
    LET sizes == {IntToChars(images[i].streams[1].width) \o <<"x">>
                     \o IntToChars(images[i].streams[1].height) :
                  i \in {j \in 1..Len(images) : is_video(images[j])}}
    IN  IF Cardinality(sizes) > 1 THEN MSG_RESIZE ELSE None

\* check_to_slide (lines 496-523): the message of the first check that
\* fails, None when all pass
check_to_slide(fsource) ==
    LET invalid == {x \in 1..Len(flCtrl) :
                       \/ ~Contains(flCtrl[x], <<"v", "i", "d", "e", "o">>)
                       \/ ~Contains(flCtrl[x], <<"s", "e", "q", "u", "e", "n", "c", "e">>)}
        unsupp  == {x \in 1..Len(fsource) : splitext(fsource[x]) \notin SUPPORTED}
        missing == {x \in 1..Len(fsource) : fsource[x] \notin isfile}
        first(S) == CHOOSE x \in S : \A y \in S : x <= y
    IN  IF invalid # {}
        THEN "Invalid file: '" \o Text(fsource[first(invalid)]) \o "'"
        ELSE IF unsupp # {}
        THEN "Unsupported format '" \o Text(splitext(fsource[first(unsupp)])) \o "'"
        ELSE IF missing # {}
        THEN "File does not exist:\n\n\"" \o Text(fsource[first(missing)]) \o "\"\n"
        ELSE None

\* check_to_loop (lines 526-548), likewise for the one file clicked
check_to_loop(typemedia, clicked) ==
    IF \/ ~Contains(typemedia, <<"v", "i", "d", "e", "o">>)
       \/ ~Contains(typemedia, <<"s", "e", "q", "u", "e", "n", "c", "e">>)
    THEN "Invalid file: '" \o Text(clicked) \o "'"
    ELSE IF splitext(clicked) \notin SUPPORTED
    THEN "Unsupported format '" \o Text(splitext(clicked)) \o "'"
    ELSE IF clicked \notin isfile
    THEN "File does not exist:\n\n\"" \o Text(clicked) \o "\"\n"
    ELSE None

\* SequenceToVideo.on_start (lines 568-623), the whole handler, with the
\* answer to the Formula dialog as its input.  The output folder and the
\* output file name are left out of the call.  The click comes from the
\* tool bar of the panel, which is left when the processing starts.
SequenceToVideo_on_start ==
    /\ proc = <<>>
    /\ data_files # <<>>
    /\ LET fget == file_selection
           \* the message of the check of lines 588-601 that ends the handler
           failed == IF ckbx_static_img
                     THEN check_to_loop(flCtrl[fget], file_src[fget])
                     ELSE IF check_to_slide(file_src) # None
                     THEN check_to_slide(file_src)
                     ELSE IF opt.RESIZE = NoText /\ Len(file_src) # 1
                     THEN check_images_size(data_files)
                     ELSE None
       IN  IF fget = 0
           THEN /\ msgbox' = MSG_SELECT_TARGET
                /\ UNCHANGED <<opt, returned, proc>>
           ELSE IF failed # None
           THEN /\ msgbox' = failed
                /\ UNCHANGED <<opt, returned, proc>>
           ELSE LET built == args_line(opt, time_seq)
                    files == IF ckbx_static_img THEN <<file_src[fget]>>
                             ELSE file_src
                IN  /\ opt' = built.opt                         \* line 602
                    /\ returned' = <<[cmd |-> built.cmd,
                                      duration |-> built.duration]>>
                    /\ msgbox' = msgbox
                    /\ \E ending \in {"ID_OK", "ID_CANCEL"} :
                         IF ending = "ID_OK"
                         THEN proc' = <<[mode |-> "sequence_to_video",
                                         filesrc |-> files,
                                         args |-> <<opt.RESIZE, built.cmd>>,
                                         preinput |-> built.opt.Preinput,
                                         duration |-> built.duration,
                                         count |-> Len(files)]>>
                         ELSE proc' = proc
    /\ UNCHANGED <<data_files, time_seq, args, self_duration, flist, checked,
                   frame_vars, parent_vars, ckbx_audio, ckbx_shortest,
                   ckbx_static_img, btn_openaudio, txt_addparams>>

\* the files the user drops on the queue of the panel, in this order
StartFiles ==
    <<SizedImage(<<"a", ".", "j", "p", "g">>, 11, 11),
      SizedImage(<<"b", ".", "P", "N", "G">>, 22, 11),
      SizedImage(<<"c", ".", "b", "m", "p">>, 11, 11),
      SizedImage(<<"d", ".", "g", "i", "f">>, 11, 11)>>

\* the panel shown with files in the queue, one of them selected or none,
\* and at most one of them deleted from the disk since
InitStart ==
    /\ \E ks \in UNION {[1..n -> 1..Len(StartFiles)] : n \in 1..MaxQueue} :
         /\ \A i, j \in 1..Len(ks) : i < j => ks[i] < ks[j]
         /\ data_files = [i \in 1..Len(ks) |-> StartFiles[ks[i]]]
    /\ time_seq = time_seq_of(ZERO_CLOCK)
    /\ PanelInit
    /\ FrameInit
    /\ opt = opt_init
    /\ ckbx_audio = FALSE
    /\ ckbx_shortest = [checked |-> FALSE, enabled |-> FALSE]
    /\ ckbx_static_img = FALSE
    /\ btn_openaudio = FALSE
    /\ txt_addparams = FALSE
    /\ returned = NoCall
    /\ filedropselected \in {NoText} \cup {file_src[i] : i \in 1..Len(file_src)}
    /\ flCtrl \in [1..Len(data_files) ->
                     {<<"v", "i", "d", "e", "o", " ", "i", "m", "a", "g", "e", "2",
                        " ", "s", "e", "q", "u", "e", "n", "c", "e">>,
                      <<"v", "i", "d", "e", "o">>}]
    /\ \E gone \in SUBSET {file_src[i] : i \in 1..Len(file_src)} :
         /\ Cardinality(gone) <= 1
         /\ isfile = {file_src[i] : i \in 1..Len(file_src)} \ gone

NextStart ==
    \/ on_static_img
    \/ on_resizing
    \/ SequenceToVideo_on_start

\* the panel with its queue: the mode and the resize filters are set and the
\* start is asked, in any order
SpecStart == InitStart /\ [][NextStart]_vars

\* ---------------------------------------------------------------------
\* Properties of the options of the still image maker
\* ---------------------------------------------------------------------

\* C24: in every state reached by clicks on the audio checkbox, clicks on
\* the shortest checkbox, audio file dialogs confirmed or cancelled and
\* reset_all_values, when the audio checkbox is unchecked AudioMerging is
\* empty, Map is '-map 0:v?', ADuration is 0, Shortest is ["", "Disabled"],
\* the shortest checkbox is unchecked and disabled, and the command built
\* has no second input and no -shortest.
C24_NoAudioWhenUnchecked ==
    ~ckbx_audio =>
        /\ opt.AudioMerging = ""
        /\ opt.Map = "-map 0:v?"
        /\ opt.ADuration = 0
        /\ opt.Shortest = <<"", "Disabled">>
        /\ ~ckbx_shortest.checked
        /\ ~ckbx_shortest.enabled
        /\ ~btn_openaudio
        /\ Built.cmd[1] = ""
        /\ \A i \in 1..Len(Built.cmd) : Built.cmd[i] # "-map 0:v:0 -map 1:a:0"
        /\ ~HasShortest(Built.cmd)
        /\ Built.opt.AudioMerging = ""

\* C24 witness: the audio checkbox is unchecked after reset_all_values, which
\* wrote the clock with a dot, and the command is built for a single image.
C24_Witness ==
    /\ ~ckbx_audio
    /\ opt.Clock[9] = "."
    /\ ckbx_static_img
    /\ ~HasShortest(Built.cmd)

\* the filters a and b on one line
WithComma(a, b) ==
    IF a = NoText THEN b ELSE IF b = NoText THEN a ELSE a \o <<",">> \o b

\* the filter line of the resize filters of the options o
FilterLine(o) == WithComma(WithComma(o.Scale, o.Setdar), o.Setsar)

\* C26: in every state reached by resize dialogs, confirmed or cancelled,
\* and reset_all_values, RESIZE is empty exactly when Scale, Setdar and
\* Setsar are all empty; when it is not empty it is '-vf ' and the non-empty
\* filters joined by commas; a cancelled dialog leaves the four unchanged.
C26_ResizeIsFilters ==
    /\ (opt.RESIZE = NoText) <=>
          (opt.Scale = NoText /\ opt.Setdar = NoText /\ opt.Setsar = NoText)
    /\ opt.RESIZE # NoText => opt.RESIZE = <<"-", "v", "f", " ">> \o FilterLine(opt)
    /\ \A data \in ScaleData : on_resizing_result(opt, "ID_CANCEL", data) = opt

\* C26 witness: the dialog was confirmed with a scale and a setsar filter and
\* no setdar filter.
C26_Witness ==
    /\ opt.Scale # NoText
    /\ opt.Setdar = NoText
    /\ opt.Setsar # NoText
    /\ opt.RESIZE = <<"-", "v", "f", " ">> \o opt.Scale \o <<",">> \o opt.Setsar

\* the file at row i of the queue is an image the panel accepts
GoodImage(i) ==
    /\ flCtrl[i] = <<"v", "i", "d", "e", "o", " ", "i", "m", "a", "g", "e", "2",
                     " ", "s", "e", "q", "u", "e", "n", "c", "e">>
    /\ \E e \in {"jpg", "PNG", "bmp"} :
          Text(SubSeq(file_src[i], 3, Len(file_src[i]))) = e
    /\ file_src[i] \in isfile

\* all the images of the queue have the same width and the same height
SameSizes ==
    \A i, j \in 1..Len(data_files) :
        /\ data_files[i].streams[1].width = data_files[j].streams[1].width
        /\ data_files[i].streams[1].height = data_files[j].streams[1].height

\* the row of the target file, 0 when there is none
TargetRow ==
    IF Len(data_files) = 1 THEN 1
    ELSE IF \E i \in 1..Len(data_files) : file_src[i] = filedropselected
    THEN CHOOSE i \in 1..Len(data_files) : file_src[i] = filedropselected
    ELSE 0

\* every gate of on_start is passed
GatesPassed ==
    /\ TargetRow # 0
    /\ IF ckbx_static_img
       THEN GoodImage(TargetRow)
       ELSE /\ \A i \in 1..Len(data_files) : GoodImage(i)
            /\ (Len(data_files) > 1 /\ opt.RESIZE = NoText) => SameSizes

\* C27: a step of on_start calls switch_to_processing only from a state
\* where every gate is passed: a target file is determined, check_to_loop
\* in static mode or check_to_slide in slideshow mode succeeds, and in
\* slideshow mode with more than one file and no resize filter all images
\* have the same width and height; when the sizes differ in that case the
\* processing is not started.
C27_StartOnlyPastGates ==
    [][SequenceToVideo_on_start =>
          /\ proc' # proc => GatesPassed
          /\ (~ckbx_static_img /\ Len(data_files) > 1 /\ opt.RESIZE = NoText
                /\ ~SameSizes) => proc' = proc /\ msgbox' # None
          /\ proc' # proc =>
                /\ proc'[1].count = IF ckbx_static_img THEN 1 ELSE Len(data_files)
                /\ proc'[1].args[1] = opt.RESIZE]_vars

\* C27 witness: the processing was started for a slideshow of two images of
\* the same size with no resize filter.
C27_Witness ==
    /\ proc # <<>>
    /\ proc[1].count = 2
    /\ proc[1].args[1] = NoText
    /\ ~ckbx_static_img

\* ---------------------------------------------------------------------
\* Properties of the panels of the main frame
\* ---------------------------------------------------------------------

\* the panel named by a topic
PanelOf(name) ==
    CASE name = AV_CONVERSIONS -> "VconvPanel"
      [] name = PRESETS_MANAGER -> "PrstsPanel"
      [] name = YOUTUBE_DOWNLOADER -> "ytDownloader"

\* C21: while the processing panel is shown, from switch_Process until
\* panelShown, it is the only content panel visible, the tool bar and the
\* button bar are hidden and the menus 0 to 3 are disabled; and after
\* panelShown is called with 'Audio/Video Conversions', 'Presets Manager'
\* or 'Youtube Downloader', the processing panel is hidden, the panel named
\* is the one shown, the menus are enabled and the title is 'Videomass'.
C21_ProcessingThenBack ==
    /\ []("ProcessPanel" \in frame.shown =>
             /\ frame.shown = {"ProcessPanel"}
             /\ ~frame.toolbar
             /\ ~frame.btnpanel
             /\ ~frame.menus
             /\ frame.title = "Processing Status - Videomass"
             /\ topic # NoCall)
    /\ [][topic' # topic => "ProcessPanel" \in frame'.shown]_vars
    /\ [][on_close_process =>
             /\ topic[1].topicname \in {AV_CONVERSIONS, PRESETS_MANAGER,
                                        YOUTUBE_DOWNLOADER}
             /\ frame'.shown = {PanelOf(topic[1].topicname)}
             /\ frame'.menus
             /\ frame'.toolbar
             /\ frame'.btnpanel
             /\ frame'.title = "Videomass"]_vars

\* C21 witness: a conversion was processed and its panel closed, and the
\* conversions panel is shown again with the menus enabled.
C21_Witness ==
    /\ topic # NoCall
    /\ topic[1].topicname = AV_CONVERSIONS
    /\ frame.shown = {"VconvPanel"}
    /\ frame.menus
    /\ frame.title = "Videomass"

\* C22: in every state reached by topic choices, Back, Forward and the jumps
\* of the View menu, topicname is 'Audio/Video Conversions' when the
\* conversions panel is visible, 'Presets Manager' when the presets panel
\* is, 'Youtube Downloader' when the downloader panel is, and None when the
\* home panel is.
C22_TopicNamesPanel ==
    /\ "VconvPanel" \in frame.shown => frame.topicname = AV_CONVERSIONS
    /\ "PrstsPanel" \in frame.shown => frame.topicname = PRESETS_MANAGER
    /\ "ytDownloader" \in frame.shown => frame.topicname = YOUTUBE_DOWNLOADER
    /\ "ChooseTopic" \in frame.shown => frame.topicname = None

\* the seven content panels of the frame
CONTENT_PANELS ==
    {"ChooseTopic", "fileDnDTarget", "textDnDTarget", "ytDownloader",
     "VconvPanel", "PrstsPanel", "ProcessPanel"}

\* C23: in every state reached by the navigation events that are enabled,
\* exactly one of the seven content panels is visible.
C23_OnePanelShown ==
    /\ frame.shown \subseteq CONTENT_PANELS
    /\ Cardinality(frame.shown) = 1

\* C23 witness: the downloader panel is the one shown after a jump from the
\* conversions panel, whose files are still loaded.
C23_Witness ==
    /\ frame.shown = {"ytDownloader"}
    /\ frame.file_src # <<>>
    /\ data_files # <<>>

=============================================================================
